---- MODULE Spec2Model ----
(***************************************************************************)
(* A model of src/models.py: the graph matching network (GMNlayer, GMNnet) *)
(* and the gated graph network (GGNN).                                     *)
(*                                                                         *)
(* Tensors are records [kind, shape, d]: shape is the tuple of dimension   *)
(* sizes and d the nested rows.  None is Python's None; Err is the result  *)
(* of an operation the tensor library refuses (a shape mismatch, an index  *)
(* out of range, a None where a tensor is needed) and stands for the       *)
(* exception it raises.  Numbers are integers: the learned parameters are  *)
(* fixed integer tables and the activation functions are integer-valued    *)
(* stand-ins (step for sigmoid, clip for tanh, a fixed-point softmax), so  *)
(* that every value is computed, by the same data flow as in the code.     *)
(***************************************************************************)
EXTENDS Integers, Sequences, FiniteSets, TLC

VARIABLES
    num_layers,     \* self.num_layers of the GMNnet or GGNN
    data,           \* the argument of forward
    pc,             \* the position in forward
    net_x1, net_x2, \* GMNnet.forward: x1 and x2, the node states of the graphs
    net_ew1, net_ew2, \* GMNnet.forward: edge_weight1 and edge_weight2
    net_i,          \* GMNnet.forward: the loop variable i, as rounds done
    hg1, hg2,       \* GMNnet.forward: the pooled results
    rounds,         \* history: the calls of self.gmnlayer.forward, in order
    loc,            \* history: the locals of the last GMNlayer.forward call
    pools,          \* history: the calls of self.pool, in order
    ggnn_x,         \* GGNN.forward: x
    ggnn_ew,        \* GGNN.forward: edge_weight
    hg,             \* GGNN.forward: the pooled result
    convs           \* history: the calls of self.ggnnlayer, in order

gmn_vars == <<net_x1, net_x2, net_ew1, net_ew2, net_i, hg1, hg2, rounds, loc>>

ggnn_vars == <<ggnn_x, ggnn_ew, hg, convs>>

vars == <<num_layers, data, pc, pools, gmn_vars, ggnn_vars>>

(***************************************************************************)
(* Bounds of the model.                                                    *)
(***************************************************************************)
\* The nodes and edges of all the graphs of one call, together.
MaxSize == 5

\* The largest num_layers.
MaxLayers == 2
VocabLen == 2
EmbeddingDim == 2

\* nn.Embedding(20, embedding_dim): the number of edge types.
NumEdgeTypes == 20

(***************************************************************************)
(* Integer helpers.                                                        *)
(***************************************************************************)
\* The sum of the first n entries of s.
RECURSIVE SumTo(_, _)
SumTo(s, n) == IF n = 0 THEN 0 ELSE s[n] + SumTo(s, n - 1)

SumSeq(s) == SumTo(s, Len(s))

MaxOf(a, b) == IF a >= b THEN a ELSE b

MinOf(a, b) == IF a <= b THEN a ELSE b

RECURSIVE MaxSeq(_)
MaxSeq(s) == IF Len(s) = 1 THEN Head(s) ELSE MaxOf(Head(s), MaxSeq(Tail(s)))

RECURSIVE Pow2(_)
Pow2(n) == IF n <= 0 THEN 1 ELSE 2 * Pow2(n - 1)

\* sigmoid, as a step function into {0, 1}
Sigmoid(v) == IF v > 0 THEN 1 ELSE 0

\* tanh, as a clip to [-2, 2]
Tanh(v) == MaxOf(-2, MinOf(2, v))

(***************************************************************************)
(* Tensors.                                                                *)
(***************************************************************************)
None == [kind |-> "none", shape |-> <<>>, d |-> <<>>]

Err == [kind |-> "error", shape |-> <<>>, d |-> <<>>]

IsNone(t) == t.kind = "none"

IsTensor(t) == t.kind = "tensor"

Dim(t) == Len(t.shape)

Is2D(t) == IsTensor(t) /\ Dim(t) = 2

\* x.size(0)
Size0(t) == IF Dim(t) >= 1 THEN t.shape[1] ELSE -1

\* x.size(1)
Size1(t) == IF Dim(t) >= 2 THEN t.shape[2] ELSE -1

\* A vector of n entries F(i).
T1(n, F(_)) ==
    [kind |-> "tensor", shape |-> <<n>>,
     d |-> SubSeq([i \in 1..n |-> F(i)], 1, n)]

\* A matrix of n rows and c columns with entries F(i, k).
T2(n, c, F(_, _)) ==
    [kind |-> "tensor", shape |-> <<n, c>>,
     d |-> SubSeq([i \in 1..n |-> SubSeq([k \in 1..c |-> F(i, k)], 1, c)], 1, n)]

\* torch.zeros(n, dtype=torch.long)
Zeros1(n) == IF n >= 0 THEN T1(n, LAMBDA i : 0) ELSE Err

\* torch.ones(n, c)
Ones(n, c) == IF n >= 0 /\ c >= 0 THEN T2(n, c, LAMBDA i, k : 1) ELSE Err

\* torch.mm(a, b)
MatMul(a, b) ==
    IF Is2D(a) /\ Is2D(b) /\ Size1(a) = Size0(b)
    THEN T2(Size0(a), Size1(b),
            LAMBDA i, k : SumSeq([j \in 1..Size1(a) |-> a.d[i][j] * b.d[j][k]]))
    ELSE Err

\* a.t()
Transpose(a) ==
    IF Is2D(a)
    THEN T2(Size1(a), Size0(a), LAMBDA i, k : a.d[k][i])
    ELSE Err

\* a - b, with broadcasting of dimensions of size 1
MatSub(a, b) ==
    IF /\ Is2D(a) /\ Is2D(b)
       /\ (Size0(a) = Size0(b) \/ Size0(a) = 1 \/ Size0(b) = 1)
       /\ (Size1(a) = Size1(b) \/ Size1(a) = 1 \/ Size1(b) = 1)
    THEN T2(IF Size0(a) = 1 THEN Size0(b) ELSE Size0(a),
            IF Size1(a) = 1 THEN Size1(b) ELSE Size1(a),
            LAMBDA i, k : a.d[MinOf(i, Size0(a))][MinOf(k, Size1(a))]
                          - b.d[MinOf(i, Size0(b))][MinOf(k, Size1(b))])
    ELSE Err

\* torch.cat([a, b], dim=1)
Cat2(a, b) ==
    IF Is2D(a) /\ Is2D(b) /\ Size0(a) = Size0(b)
    THEN T2(Size0(a), Size1(a) + Size1(b),
            LAMBDA i, k : IF k <= Size1(a) THEN a.d[i][k] ELSE b.d[i][k - Size1(a)])
    ELSE Err

\* torch.cat([a, b, c], dim=1)
Cat3(a, b, c) == Cat2(Cat2(a, b), c)

\* F.relu(a)
Relu(a) ==
    IF Is2D(a)
    THEN T2(Size0(a), Size1(a), LAMBDA i, k : MaxOf(0, a.d[i][k]))
    ELSE Err

\* The weights of the entries s along one softmax dimension, relative to
\* the largest one, and their normalisation to a fixed-point unit of 4.
SoftmaxEntry(s, all) ==
    LET w(v) == Pow2(2 - MinOf(2, MaxSeq(all) - v))
    IN  (4 * w(s)) \div SumSeq([j \in 1..Len(all) |-> w(all[j])])

\* F.softmax(a, dim=dim): dim = 1 normalises each row, dim = 0 each column.
Softmax(a, dim) ==
    IF ~Is2D(a) THEN Err
    ELSE IF dim = 1
    THEN T2(Size0(a), Size1(a), LAMBDA i, k : SoftmaxEntry(a.d[i][k], a.d[i]))
    ELSE T2(Size0(a), Size1(a),
            LAMBDA i, k : SoftmaxEntry(a.d[i][k], [r \in 1..Size0(a) |-> a.d[r][k]]))

\* x.squeeze(1): drops dimension 1 when its size is 1.
Squeeze1(t) ==
    IF ~IsTensor(t) THEN Err
    ELSE IF Dim(t) = 3 /\ t.shape[2] = 1
    THEN T2(t.shape[1], t.shape[3], LAMBDA i, k : t.d[i][1][k])
    ELSE IF Dim(t) = 2 /\ t.shape[2] = 1
    THEN T1(t.shape[1], LAMBDA i : t.d[i][1])
    ELSE t

\* torch.index_select(x, 0, idx): the rows of x at the (0-based) indices idx.
IndexSelect(x, idx) ==
    IF Is2D(x) /\ \A e \in 1..Len(idx) : idx[e] \in 0..(Size0(x) - 1)
    THEN T2(Len(idx), Size1(x), LAMBDA e, k : x.d[idx[e] + 1][k])
    ELSE Err

\* A tensor of shape [n, m, c] with entries F(i, j, k).
T3(n, m, c, F(_, _, _)) ==
    [kind |-> "tensor", shape |-> <<n, m, c>>,
     d |-> SubSeq([i \in 1..n |->
              SubSeq([j \in 1..m |->
                 SubSeq([k \in 1..c |-> F(i, j, k)], 1, c)], 1, m)], 1, n)]

\* scatter("add", src, index, dim_size=dim_size), from edge e on: row e of
\* src is added to row index[e] of the accumulator.
RECURSIVE ScatterFrom(_, _, _, _)
ScatterFrom(src, index, e, acc) ==
    IF e > Len(index) THEN acc
    ELSE ScatterFrom(src, index, e + 1,
            [acc EXCEPT ![index[e] + 1] =
                SubSeq([k \in 1..Size1(src) |-> @[k] + src.d[e][k]], 1, Size1(src))])

ScatterAdd(src, index, dim_size) ==
    IF /\ Is2D(src)
       /\ Len(index) = Size0(src)
       /\ \A e \in 1..Len(index) : index[e] \in 0..(dim_size - 1)
    THEN [kind |-> "tensor", shape |-> <<dim_size, Size1(src)>>,
          d |-> ScatterFrom(src, index, 1, T2(dim_size, Size1(src), LAMBDA i, k : 0).d)]
    ELSE Err

(***************************************************************************)
(* Learned layers.  A parameter table is a fixed table of integers in      *)
(* -2..2, chosen by a seed per parameter.                                  *)
(***************************************************************************)
Param(seed, k, j) == ((3 * seed + 3 * k + j + k * j + 2 * seed * (k + j)) % 5) - 2

\* nn.Embedding(num, dim) with table seed, applied to a matrix of ids.
Embedding(seed, num, dim, ids) ==
    IF /\ Is2D(ids)
       /\ \A i \in 1..Size0(ids), j \in 1..Size1(ids) : ids.d[i][j] \in 0..(num - 1)
    THEN T3(Size0(ids), Size1(ids), dim, LAMBDA i, j, k : Param(seed, k, ids.d[i][j]))
    ELSE Err

\* nn.Linear(in, out) with weight and bias seed, applied to the rows of x.
Linear(seed, in, out, x) ==
    IF Is2D(x) /\ Size1(x) = in
    THEN T2(Size0(x), out,
            LAMBDA i, k : Param(seed + 1, k, 0)
                          + SumSeq([j \in 1..in |-> Param(seed, k, j) * x.d[i][j]]))
    ELSE Err

\* One row of torch.nn.GRUCell(in, hid, bias=True): the gates r and z, the
\* candidate n and the new hidden row.
GRURow(seed, in, hid, xr, hr) ==
    LET wi(g, k) == Param(seed + 2 * g + 1, k, 0)
                    + SumSeq([j \in 1..in |-> Param(seed + 2 * g, k, j) * xr[j]])
        wh(g, k) == Param(seed + 2 * g + 7, k, 0)
                    + SumSeq([j \in 1..hid |-> Param(seed + 2 * g + 6, k, j) * hr[j]])
        r(k) == Sigmoid(wi(1, k) + wh(1, k))
        z(k) == Sigmoid(wi(2, k) + wh(2, k))
        n(k) == Tanh(wi(3, k) + r(k) * wh(3, k))
    IN  [k \in 1..hid |-> (1 - z(k)) * n(k) + z(k) * hr[k]]

GRUCell(seed, in, hid, input, hx) ==
    IF /\ Is2D(input) /\ Is2D(hx)
       /\ Size1(input) = in /\ Size1(hx) = hid
       /\ Size0(input) = Size0(hx)
    THEN LET rows == [i \in 1..Size0(hx) |-> GRURow(seed, in, hid, input.d[i], hx.d[i])]
         IN  T2(Size0(hx), hid, LAMBDA i, k : rows[i][k])
    ELSE Err

\* GlobalAttention(gate_nn)(x, batch) with gate_nn = Linear(dim, 1), Sigmoid:
\* one output row per batch index 0..max(batch), the gate-weighted sum of
\* the rows of x assigned to it, the gates normalised within the segment.
GlobalAttention(seed, dim, x, batch) ==
    IF /\ Is2D(x) /\ IsTensor(batch) /\ Dim(batch) = 1
       /\ Size0(x) >= 1 /\ Size0(batch) = Size0(x)
       /\ \A i \in 1..Size0(x) : batch.d[i] >= 0
    THEN LET lin == Linear(seed, dim, 1, x)
         IN  IF ~IsTensor(lin) THEN Err
             ELSE LET gate == [i \in 1..Size0(x) |-> Sigmoid(lin.d[i][1])]
                      seg(b) == SelectSeq([i \in 1..Size0(x) |-> i],
                                          LAMBDA i : batch.d[i] = b)
                      att(i) == SoftmaxEntry(gate[i],
                                   [q \in 1..Len(seg(batch.d[i])) |-> gate[seg(batch.d[i])[q]]])
                      weighted == T2(Size0(x), Size1(x), LAMBDA i, k : att(i) * x.d[i][k])
                  IN  ScatterAdd(weighted, batch.d, MaxSeq(batch.d) + 1)
    ELSE Err

(***************************************************************************)
(* GMNlayer.                                                               *)
(***************************************************************************)
\* GMNlayer(embedding_dim, embedding_dim, device)
in_channels == EmbeddingDim

out_channels == EmbeddingDim

\* self.fmessage = nn.Linear(3 * in_channels, out_channels)
fmessage(x) == Linear(10, 3 * in_channels, out_channels, x)

\* self.fnode = torch.nn.GRUCell(2 * out_channels, out_channels, bias=True)
fnode(input, hx) == GRUCell(20, 2 * out_channels, out_channels, input, hx)

\* A message input whose stand-in for the missing edge weights is one column
\* of ones.
message_input_ones_column(x_i, x_j, edge_weight) ==
    IF IsNone(edge_weight)
    THEN Cat3(x_i, x_j, Ones(Size0(x_i), 1))
    ELSE Cat3(x_i, x_j, edge_weight)

\* GMNlayer.message, lines 124-128: the argument of self.fmessage, with
\* torch.ones(x_i.size(0), x_i.size(1)) for an edge_weight of None.
message_input(x_i, x_j, edge_weight) ==
    IF IsNone(edge_weight)
    THEN Cat3(x_i, x_j, Ones(Size0(x_i), Size1(x_i)))
    ELSE Cat3(x_i, x_j, edge_weight)

\* GMNlayer.message
message(x_i, x_j, edge_index, size, edge_weight) ==
    Relu(fmessage(message_input(x_i, x_j, edge_weight)))

\* GMNlayer.update
update(aggr_out) == aggr_out

\* A propagation that sums the messages at the edges' sources.
propagate_at_source(edge_index, size, x, edge_weight) ==
    IF ~(Is2D(edge_index) /\ Size0(edge_index) = 2) \/ ~Is2D(x)
       \/ size[1] # Size0(x) \/ size[2] # Size0(x)
    THEN Err
    ELSE LET x_j == IndexSelect(x, edge_index.d[1])
             x_i == IndexSelect(x, edge_index.d[2])
             out == message(x_i, x_j, edge_index, size, edge_weight)
         IN  update(ScatterAdd(out, edge_index.d[1], size[1]))

\* MessagePassing.propagate with aggr = "add" and the default flow
\* source_to_target: x_j is x at the edges' sources (row 0 of edge_index),
\* x_i is x at their targets (row 1), the messages are summed at the targets.
propagate(edge_index, size, x, edge_weight) ==
    IF ~(Is2D(edge_index) /\ Size0(edge_index) = 2) \/ ~Is2D(x)
       \/ size[1] # Size0(x) \/ size[2] # Size0(x)
    THEN Err
    ELSE LET x_j == IndexSelect(x, edge_index.d[1])
             x_i == IndexSelect(x, edge_index.d[2])
             out == message(x_i, x_j, edge_index, size, edge_weight)
         IN  update(ScatterAdd(out, edge_index.d[2], size[2]))

\* A layer that returns the inputs of the node update in place of its results.
GMNlayer_forward_no_fnode(x1, x2, edge_index1, edge_index2, edge_weight1, edge_weight2) ==
    LET m1 == propagate(edge_index1, <<Size0(x1), Size0(x1)>>, x1, edge_weight1)
        m2 == propagate(edge_index2, <<Size0(x2), Size0(x2)>>, x2, edge_weight2)
        scores == MatMul(x1, Transpose(x2))
        attn_1 == Softmax(scores, 1)
        attn_2 == Transpose(Softmax(scores, 0))
        attnsum_1 == MatMul(attn_1, x2)
        attnsum_2 == MatMul(attn_2, x1)
        u1 == MatSub(x1, attnsum_1)
        u2 == MatSub(x2, attnsum_2)
        m1cat == Cat2(m1, u1)
        h1 == m1cat
        m2cat == Cat2(m2, u2)
        h2 == m2cat
    IN  [m1 |-> m1, m2 |-> m2, scores |-> scores,
         attn_1 |-> attn_1, attn_2 |-> attn_2,
         attnsum_1 |-> attnsum_1, attnsum_2 |-> attnsum_2,
         u1 |-> u1, u2 |-> u2, m1cat |-> m1cat, m2cat |-> m2cat,
         h1 |-> h1, h2 |-> h2]

\* A layer that updates graph 2 from the new node states of graph 1.
GMNlayer_forward_sequential(x1, x2, edge_index1, edge_index2, edge_weight1, edge_weight2) ==
    LET m1 == propagate(edge_index1, <<Size0(x1), Size0(x1)>>, x1, edge_weight1)
        m2 == propagate(edge_index2, <<Size0(x2), Size0(x2)>>, x2, edge_weight2)
        scores == MatMul(x1, Transpose(x2))
        attn_1 == Softmax(scores, 1)
        attn_2 == Transpose(Softmax(scores, 0))
        attnsum_1 == MatMul(attn_1, x2)
        attnsum_2 == MatMul(attn_2, fnode(Cat2(m1, MatSub(x1, attnsum_1)), x1))
        u1 == MatSub(x1, attnsum_1)
        u2 == MatSub(x2, attnsum_2)
        m1cat == Cat2(m1, u1)
        h1 == fnode(m1cat, x1)
        m2cat == Cat2(m2, u2)
        h2 == fnode(m2cat, x2)
    IN  [m1 |-> m1, m2 |-> m2, scores |-> scores,
         attn_1 |-> attn_1, attn_2 |-> attn_2,
         attnsum_1 |-> attnsum_1, attnsum_2 |-> attnsum_2,
         u1 |-> u1, u2 |-> u2, m1cat |-> m1cat, m2cat |-> m2cat,
         h1 |-> h1, h2 |-> h2]

\* A layer whose second attention matrix is normalised along the wrong dimension.
GMNlayer_forward_row_softmax(x1, x2, edge_index1, edge_index2, edge_weight1, edge_weight2) ==
    LET m1 == propagate(edge_index1, <<Size0(x1), Size0(x1)>>, x1, edge_weight1)
        m2 == propagate(edge_index2, <<Size0(x2), Size0(x2)>>, x2, edge_weight2)
        scores == MatMul(x1, Transpose(x2))
        attn_1 == Softmax(scores, 1)
        attn_2 == Transpose(Softmax(scores, 1))
        attnsum_1 == MatMul(attn_1, x2)
        attnsum_2 == MatMul(attn_2, x1)
        u1 == MatSub(x1, attnsum_1)
        u2 == MatSub(x2, attnsum_2)
        m1cat == Cat2(m1, u1)
        h1 == fnode(m1cat, x1)
        m2cat == Cat2(m2, u2)
        h2 == fnode(m2cat, x2)
    IN  [m1 |-> m1, m2 |-> m2, scores |-> scores,
         attn_1 |-> attn_1, attn_2 |-> attn_2,
         attnsum_1 |-> attnsum_1, attnsum_2 |-> attnsum_2,
         u1 |-> u1, u2 |-> u2, m1cat |-> m1cat, m2cat |-> m2cat,
         h1 |-> h1, h2 |-> h2]

\* GMNlayer.forward: the record of its locals; m1cat and m2cat are m1 and m2
\* after their reassignment to the concatenation with u1 and u2.
GMNlayer_forward(x1, x2, edge_index1, edge_index2, edge_weight1, edge_weight2) ==
    LET m1 == propagate(edge_index1, <<Size0(x1), Size0(x1)>>, x1, edge_weight1)
        m2 == propagate(edge_index2, <<Size0(x2), Size0(x2)>>, x2, edge_weight2)
        scores == MatMul(x1, Transpose(x2))
        attn_1 == Softmax(scores, 1)
        attn_2 == Transpose(Softmax(scores, 0))
        attnsum_1 == MatMul(attn_1, x2)
        attnsum_2 == MatMul(attn_2, x1)
        u1 == MatSub(x1, attnsum_1)
        u2 == MatSub(x2, attnsum_2)
        m1cat == Cat2(m1, u1)
        h1 == fnode(m1cat, x1)
        m2cat == Cat2(m2, u2)
        h2 == fnode(m2cat, x2)
    IN  [m1 |-> m1, m2 |-> m2, scores |-> scores,
         attn_1 |-> attn_1, attn_2 |-> attn_2,
         attnsum_1 |-> attnsum_1, attnsum_2 |-> attnsum_2,
         u1 |-> u1, u2 |-> u2, m1cat |-> m1cat, m2cat |-> m2cat,
         h1 |-> h1, h2 |-> h2]

(***************************************************************************)
(* GMNnet.                                                                 *)
(***************************************************************************)
\* self.embed = nn.Embedding(vocablen, embedding_dim)
embed(ids) == Embedding(1, VocabLen, EmbeddingDim, ids)

\* self.edge_embed = nn.Embedding(20, embedding_dim)
edge_embed(ids) == Embedding(2, NumEdgeTypes, EmbeddingDim, ids)

\* self.pool = GlobalAttention(gate_nn=self.mlp_gate)
pool(x, batch) == GlobalAttention(30, EmbeddingDim, x, batch)

\* A batch vector that gives every node a batch index of its own.
batch_of_arange(x) == T1(Size0(x), LAMBDA r : r - 1)

\* torch.zeros(x.size(0), dtype=torch.long): the batch vector of a graph
batch_of(x) == Zeros1(Size0(x))

\* An exception leaves forward: no result, the locals as they were.
Raise ==
    /\ pc' = "error"
    /\ UNCHANGED <<num_layers, data, pools, gmn_vars, ggnn_vars>>

\* GMNnet.forward, lines 152-156: the node embeddings.
GMN_embed ==
    /\ pc = "embed"
    /\ LET e1 == Squeeze1(embed(data.x1))
           e2 == Squeeze1(embed(data.x2))
       IN  IF IsTensor(e1) /\ IsTensor(e2)
           THEN /\ net_x1' = e1
                /\ net_x2' = e2
                /\ pc' = "edge"
                /\ UNCHANGED <<num_layers, data, net_ew1, net_ew2, net_i,
                               hg1, hg2, rounds, loc, pools, ggnn_vars>>
           ELSE Raise

\* Edge weights decided for each graph by its own edge attributes.
edge_weights_each(edge_attr1, edge_attr2) ==
    <<IF IsNone(edge_attr1) THEN None ELSE Squeeze1(edge_embed(edge_attr1)),
      IF IsNone(edge_attr2) THEN None ELSE Squeeze1(edge_embed(edge_attr2))>>

\* The edge weights of lines 157-164 as the pair <<edge_weight1, edge_weight2>>.
edge_weights(edge_attr1, edge_attr2) ==
    IF IsNone(edge_attr1)
    THEN <<None, None>>
    ELSE <<Squeeze1(edge_embed(edge_attr1)), Squeeze1(edge_embed(edge_attr2))>>

\* GMNnet.forward, lines 157-164.
GMN_edge ==
    /\ pc = "edge"
    /\ LET ew == edge_weights(data.edge_attr1, data.edge_attr2)
       IN  IF ew[1].kind # "error" /\ ew[2].kind # "error"
           THEN /\ net_ew1' = ew[1]
                /\ net_ew2' = ew[2]
                /\ pc' = "loop"
                /\ UNCHANGED <<num_layers, data, net_x1, net_x2, net_i,
                               hg1, hg2, rounds, loc, pools, ggnn_vars>>
           ELSE Raise

\* A loop that runs one round too many.
more_rounds_one_extra == net_i <= num_layers

\* range(self.num_layers) has another round to give after i rounds.
more_rounds == net_i < num_layers

\* The arguments of the call of self.gmnlayer.forward in lines 166-174.
round_args ==
    [x1 |-> net_x1, x2 |-> net_x2,
     edge_index1 |-> data.edge_index1, edge_index2 |-> data.edge_index2,
     edge_weight1 |-> net_ew1, edge_weight2 |-> net_ew2]

\* GMNnet.forward, lines 165-174: one round of the loop.
GMN_round ==
    /\ pc = "loop"
    /\ more_rounds
    /\ \E a \in {round_args} :
       \E r \in {GMNlayer_forward(a.x1, a.x2, a.edge_index1, a.edge_index2,
                                  a.edge_weight1, a.edge_weight2)} :
           IF IsTensor(r.h1) /\ IsTensor(r.h2)
           THEN /\ net_x1' = r.h1
                /\ net_x2' = r.h2
                /\ net_i' = net_i + 1
                /\ rounds' = Append(rounds, [args |-> a, h1 |-> r.h1, h2 |-> r.h2])
                /\ loc' = r
                /\ UNCHANGED <<num_layers, data, pc, net_ew1, net_ew2,
                               hg1, hg2, pools, ggnn_vars>>
           ELSE Raise

\* GMNnet.forward, lines 175-181: the pooling of each graph and the return.
GMN_pool ==
    /\ pc = "loop"
    /\ ~more_rounds
    /\ \E batch1 \in {batch_of(net_x1)}, batch2 \in {batch_of(net_x2)} :
       \E p1 \in {pool(net_x1, batch1)}, p2 \in {pool(net_x2, batch2)} :
           IF IsTensor(p1) /\ IsTensor(p2)
           THEN /\ hg1' = p1
                /\ hg2' = p2
                /\ pools' = pools \o <<[x |-> net_x1, batch |-> batch1, i |-> net_i],
                                       [x |-> net_x2, batch |-> batch2, i |-> net_i]>>
                /\ pc' = "done"
                /\ UNCHANGED <<num_layers, data, net_x1, net_x2, net_ew1, net_ew2,
                               net_i, rounds, loc, ggnn_vars>>
           ELSE Raise

\* GMNnet.forward, lines 165-174, as a function: the node states after n
\* more rounds, or Err when a round raises.  gmn_after continues from the
\* result r of one round.
RECURSIVE gmn_rounds(_, _, _, _, _, _, _)
RECURSIVE gmn_after(_, _, _, _, _, _)
gmn_rounds(a1, a2, edge_index1, edge_index2, edge_weight1, edge_weight2, n) ==
    IF n <= 0 THEN <<a1, a2>>
    ELSE gmn_after(GMNlayer_forward(a1, a2, edge_index1, edge_index2,
                                    edge_weight1, edge_weight2),
                   edge_index1, edge_index2, edge_weight1, edge_weight2, n)

gmn_after(r, edge_index1, edge_index2, edge_weight1, edge_weight2, n) ==
    IF IsTensor(r.h1) /\ IsTensor(r.h2)
    THEN gmn_rounds(r.h1, r.h2, edge_index1, edge_index2,
                    edge_weight1, edge_weight2, n - 1)
    ELSE <<Err, Err>>

\* GMNnet.forward as a function of its argument and of self.num_layers: the
\* pair <<hg1, hg2>>, or <<Err, Err>> when the call raises.
GMNnet_forward(d, layers) ==
    LET e1 == Squeeze1(embed(d.x1))
        e2 == Squeeze1(embed(d.x2))
        ew == edge_weights(d.edge_attr1, d.edge_attr2)
    IN  IF ~IsTensor(e1) \/ ~IsTensor(e2) \/ ew[1].kind = "error" \/ ew[2].kind = "error"
        THEN <<Err, Err>>
        ELSE LET xs == gmn_rounds(e1, e2, d.edge_index1, d.edge_index2,
                                  ew[1], ew[2], layers)
                 p1 == pool(xs[1], batch_of(xs[1]))
                 p2 == pool(xs[2], batch_of(xs[2]))
             IN  IF IsTensor(p1) /\ IsTensor(p2) THEN <<p1, p2>> ELSE <<Err, Err>>


(***************************************************************************)
(* GGNN.                                                                   *)
(***************************************************************************)
\* GatedGraphConv(out_channels, num_layers)(x, edge_index), from step s on:
\* each step multiplies x by the step's weight, sums the result over the
\* incoming edges of each node and updates x by the layer's GRU cell.
RECURSIVE GatedGraphConvFrom(_, _, _, _, _)
GatedGraphConvFrom(channels, steps, x, edge_index, s) ==
    IF s > steps \/ ~IsTensor(x) THEN x
    ELSE LET weight == T2(channels, channels, LAMBDA r, k : Param(40 + s, k, r))
             m == MatMul(x, weight)
             x_j == IndexSelect(m, edge_index.d[1])
             aggr == ScatterAdd(x_j, edge_index.d[2], Size0(x))
         IN  GatedGraphConvFrom(channels, steps,
                                GRUCell(50, channels, channels, aggr, x),
                                edge_index, s + 1)

GatedGraphConv(channels, steps, x, edge_index) ==
    IF Is2D(x) /\ Size1(x) = channels /\ Is2D(edge_index) /\ Size0(edge_index) = 2
    THEN GatedGraphConvFrom(channels, steps, x, edge_index, 1)
    ELSE Err

\* A convolution of one step, whatever num_layers is.
ggnnlayer_one_step(x, edge_index) == GatedGraphConv(EmbeddingDim, 1, x, edge_index)

\* self.ggnnlayer = GatedGraphConv(embedding_dim, num_layers)
ggnnlayer(x, edge_index) == GatedGraphConv(EmbeddingDim, num_layers, x, edge_index)

\* GGNN.forward, lines 195-197.
GGNN_embed ==
    /\ pc = "g_embed"
    /\ LET e == Squeeze1(embed(data.x))
       IN  IF IsTensor(e)
           THEN /\ ggnn_x' = e
                /\ pc' = "g_edge"
                /\ UNCHANGED <<num_layers, data, pools, gmn_vars, ggnn_ew, hg, convs>>
           ELSE Raise

\* The edge weight of lines 198-202.
ggnn_edge_weight(edge_attr) ==
    IF IsNone(edge_attr) THEN None ELSE Squeeze1(edge_embed(edge_attr))

\* GGNN.forward, lines 198-202.
GGNN_edge ==
    /\ pc = "g_edge"
    /\ LET ew == ggnn_edge_weight(data.edge_attr)
       IN  IF ew.kind # "error"
           THEN /\ ggnn_ew' = ew
                /\ pc' = "g_conv"
                /\ UNCHANGED <<num_layers, data, pools, gmn_vars, ggnn_x, hg, convs>>
           ELSE Raise

\* The arguments of the call of self.ggnnlayer in line 203.
conv_args == [x |-> ggnn_x, edge_index |-> data.edge_index]

\* GGNN.forward, line 203.
GGNN_conv ==
    /\ pc = "g_conv"
    /\ LET a == conv_args
           r == ggnnlayer(a.x, a.edge_index)
       IN  IF IsTensor(r)
           THEN /\ ggnn_x' = r
                /\ convs' = Append(convs, [args |-> a, steps |-> num_layers, out |-> r])
                /\ pc' = "g_pool"
                /\ UNCHANGED <<num_layers, data, pools, gmn_vars, ggnn_ew, hg>>
           ELSE Raise

\* GGNN.forward, lines 204-206.
GGNN_pool ==
    /\ pc = "g_pool"
    /\ LET batch == batch_of(ggnn_x)
           p == pool(ggnn_x, batch)
       IN  IF IsTensor(p)
           THEN /\ hg' = p
                /\ pools' = Append(pools, [x |-> ggnn_x, batch |-> batch, i |-> Len(convs)])
                /\ pc' = "done"
                /\ UNCHANGED <<num_layers, data, gmn_vars, ggnn_x, ggnn_ew, convs>>
           ELSE Raise

(***************************************************************************)
(* The inputs.                                                             *)
(***************************************************************************)
\* The [n, 1] tensor of the node ids of a graph of n nodes: node r has the
\* id (t0 + r) mod vocablen.
NodeIds(n, t0) == T2(n, 1, LAMBDA r, k : (t0 + r - 1) % VocabLen)

\* The [2, e] edge index tensors over the nodes 0..n-1.
EdgeIndexes(n, e) ==
    { [kind |-> "tensor", shape |-> <<2, e>>, d |-> <<src, tgt>>] :
        src \in [1..e -> 0..(n - 1)], tgt \in [1..e -> 0..(n - 1)] }

\* The edge attributes of e edges: None, or the [e, 1] tensor of edge types
\* in which edge r has the type (r - 1) mod 20.
EdgeAttrs(e) == {None, T2(e, 1, LAMBDA r, k : (r - 1) % NumEdgeTypes)}

\* The graphs of n nodes and e edges: node ids, edges and edge attributes.
GraphsOf(n, e, t0) ==
    { [x |-> NodeIds(n, t0), edge_index |-> ei, edge_attr |-> ea] :
        ei \in EdgeIndexes(n, e), ea \in EdgeAttrs(e) }

\* The argument of GMNnet.forward for the graphs g1 and g2.
DataOf(g1, g2) ==
    [x1 |-> g1.x, x2 |-> g2.x,
     edge_index1 |-> g1.edge_index, edge_index2 |-> g2.edge_index,
     edge_attr1 |-> g1.edge_attr, edge_attr2 |-> g2.edge_attr]

\* The pairs of graphs of at most MaxSize nodes and edges in all.
GMNInputs ==
    UNION { { DataOf(g1, g2) : g1 \in GraphsOf(s[1], s[2], 0), g2 \in GraphsOf(s[3], s[4], 1) } :
            s \in { t \in (1..MaxSize) \X (0..MaxSize) \X (1..MaxSize) \X (0..MaxSize) :
                      t[1] + t[2] + t[3] + t[4] <= MaxSize } }

\* The graphs of fewer than MaxSize nodes and edges in all.
GGNNInputs ==
    UNION { GraphsOf(s[1], s[2], 0) :
            s \in { t \in (1..MaxSize) \X (0..MaxSize) : t[1] + t[2] < MaxSize } }

Idle ==
    /\ net_x1 = None /\ net_x2 = None
    /\ net_ew1 = None /\ net_ew2 = None
    /\ net_i = 0
    /\ hg1 = None /\ hg2 = None
    /\ rounds = <<>>
    /\ loc = None
    /\ pools = <<>>
    /\ ggnn_x = None /\ ggnn_ew = None
    /\ hg = None
    /\ convs = <<>>

\* A GMNnet of num_layers layers, at the call of forward(data).
Init ==
    /\ num_layers \in 0..MaxLayers
    /\ data \in GMNInputs
    /\ pc = "embed"
    /\ Idle

Next ==
    \/ GMN_embed
    \/ GMN_edge
    \/ GMN_round
    \/ GMN_pool

Spec == Init /\ [][Next]_vars

\* A GGNN of num_layers steps, at the call of forward(data).
InitGGNN ==
    /\ num_layers \in 0..MaxLayers
    /\ data \in GGNNInputs
    /\ pc = "g_embed"
    /\ Idle

NextGGNN ==
    \/ GGNN_embed
    \/ GGNN_edge
    \/ GGNN_conv
    \/ GGNN_pool

SpecGGNN == InitGGNN /\ [][NextGGNN]_vars

(***************************************************************************)
(* The properties.                                                         *)
(***************************************************************************)
Shape2(t, n, c) == IsTensor(t) /\ t.shape = <<n, c>>

\* The embedded inputs of GMNnet.forward.
Embedded1 == Squeeze1(embed(data.x1))

Embedded2 == Squeeze1(embed(data.x2))

\* The node counts of the input graphs.
N1 == Size0(data.x1)

N2 == Size0(data.x2)

LastRound == rounds[Len(rounds)]

\* forward raises only in the case of line 163: edge_attr1 given and
\* edge_attr2 None.
RaisesOnlyOnMissingAttr2 ==
    pc = "error" => /\ ~IsNone(data.edge_attr1) /\ IsNone(data.edge_attr2)
                    /\ rounds = <<>>

\* C1: GMNnet.forward applies the one GMNlayer exactly num_layers times, in
\* sequence: round 1 takes the embedded inputs and round k the pair returned
\* by round k-1, every round with the same edge indices and edge weights;
\* the pooling happens only after the last round, on the states that round
\* returned, and with num_layers = 0 on the embedded inputs unchanged.
C1_RoundsInSequence ==
    /\ Len(rounds) = net_i
    /\ net_i <= num_layers
    /\ pc = "done" => net_i = num_layers
    /\ \A k \in 1..Len(rounds) :
          /\ rounds[k].args.x1 = (IF k = 1 THEN Embedded1 ELSE rounds[k - 1].h1)
          /\ rounds[k].args.x2 = (IF k = 1 THEN Embedded2 ELSE rounds[k - 1].h2)
          /\ rounds[k].args.edge_index1 = data.edge_index1
          /\ rounds[k].args.edge_index2 = data.edge_index2
          /\ rounds[k].args.edge_weight1 = rounds[1].args.edge_weight1
          /\ rounds[k].args.edge_weight2 = rounds[1].args.edge_weight2
    /\ (pc = "loop" /\ Len(rounds) >= 1) =>
          \A a \in {LastRound.args} :
          \A f \in {GMNlayer_forward(a.x1, a.x2, a.edge_index1, a.edge_index2,
                                     a.edge_weight1, a.edge_weight2)} :
              LastRound.h1 = f.h1 /\ LastRound.h2 = f.h2
    /\ pc # "done" => pools = <<>>
    /\ pc = "done" =>
          /\ Len(pools) = 2
          /\ pools[1].i = num_layers /\ pools[2].i = num_layers
          /\ pools[1].x = (IF num_layers = 0 THEN Embedded1 ELSE rounds[num_layers].h1)
          /\ pools[2].x = (IF num_layers = 0 THEN Embedded2 ELSE rounds[num_layers].h2)

\* Two rounds were made, the second on the result of the first, and the
\* result was pooled.
C1_Witness ==
    /\ pc = "done" /\ num_layers = 2 /\ Len(rounds) = 2
    /\ rounds[2].args.x1 = rounds[1].h1
    /\ rounds[2].args.x1 # rounds[1].args.x1
    /\ rounds[2].h1 # rounds[1].h1
    /\ pools[1].x = rounds[2].h1

\* C2: when GMNnet.forward returns, hg1 and hg2 are each one vector of
\* width embedding_dim, whatever the node counts N1 and N2 are: the two
\* pooling calls are separate, each with the batch vector of zeros of its
\* own graph, hg1 pooling the N1 node states of graph 1 and hg2 the N2 node
\* states of graph 2; and forward returns unless edge_attr2 alone is None.
C2_OneVectorPerGraph ==
    /\ RaisesOnlyOnMissingAttr2
    /\ pc = "done" =>
          /\ N1 >= 1 /\ N2 >= 1
          /\ Shape2(hg1, 1, EmbeddingDim)
          /\ Shape2(hg2, 1, EmbeddingDim)
          /\ Len(pools) = 2
          /\ pools[1].batch = Zeros1(N1)
          /\ pools[2].batch = Zeros1(N2)
          /\ pools[1].x = net_x1 /\ Size0(net_x1) = N1
          /\ pools[2].x = net_x2 /\ Size0(net_x2) = N2
          /\ hg1 = pool(net_x1, Zeros1(N1))
          /\ hg2 = pool(net_x2, Zeros1(N2))

\* Graphs of two and of three nodes were pooled to one vector each.
C2_Witness ==
    /\ pc = "done"
    /\ N1 = 2 /\ N2 = 3
    /\ hg1.shape = <<1, EmbeddingDim>> /\ hg2.shape = <<1, EmbeddingDim>>
    /\ hg1 # hg2

\* C3: GGNN.forward embeds the nodes of its one graph, calls the gated graph
\* convolution of num_layers steps exactly once, on the embedded x and
\* edge_index, and pools all the N >= 1 nodes, with the batch vector of
\* zeros, to one vector of width embedding_dim; it never raises.
C3_GGNNOneVector ==
    /\ pc # "error"
    /\ Len(convs) <= 1
    /\ pc \in {"g_pool", "done"} =>
          /\ Len(convs) = 1
          /\ convs[1].args.x = Squeeze1(embed(data.x))
          /\ convs[1].args.edge_index = data.edge_index
          /\ convs[1].out = GatedGraphConv(EmbeddingDim, num_layers,
                                           convs[1].args.x, data.edge_index)
          /\ Shape2(convs[1].out, Size0(data.x), EmbeddingDim)
    /\ pc # "done" => pools = <<>>
    /\ pc = "done" =>
          /\ Size0(data.x) >= 1
          /\ Len(pools) = 1
          /\ pools[1].x = convs[1].out
          /\ pools[1].batch = Zeros1(Size0(data.x))
          /\ hg = pool(convs[1].out, Zeros1(Size0(data.x)))
          /\ Shape2(hg, 1, EmbeddingDim)

\* A graph of three nodes and an edge went through two steps of the
\* convolution, which changed its node states, and was pooled to one vector.
C3_Witness ==
    /\ pc = "done" /\ num_layers = 2
    /\ Size0(data.x) = 3 /\ Size1(data.edge_index) = 1
    /\ convs[1].out # convs[1].args.x
    /\ hg.shape = <<1, EmbeddingDim>>

\* C4: GMNlayer.forward keeps the shape of each graph's node states: with
\* in_channels = out_channels = C it takes x1 of shape [N1, C] and x2 of
\* shape [N2, C] to h1 of shape [N1, C] and h2 of shape [N2, C], so that
\* after any number of rounds each graph has its node count and the width
\* embedding_dim; in between, attn_1 is [N1, N2], attn_2 is [N2, N1],
\* attnsum_1 is [N1, C], attnsum_2 is [N2, C] and the input of the GRU cell
\* is [Nk, 2C].  No round raises.
C4_ShapesPreserved ==
    /\ RaisesOnlyOnMissingAttr2
    /\ in_channels = out_channels
    /\ pc \in {"edge", "loop", "done"} =>
          /\ Shape2(net_x1, N1, EmbeddingDim)
          /\ Shape2(net_x2, N2, EmbeddingDim)
    /\ Len(rounds) >= 1 =>
          LET a == LastRound.args
              C == out_channels
          IN  /\ Shape2(a.x1, N1, C) /\ Shape2(a.x2, N2, C)
              /\ Shape2(loc.h1, N1, C) /\ Shape2(loc.h2, N2, C)
              /\ Shape2(LastRound.h1, N1, C) /\ Shape2(LastRound.h2, N2, C)
              /\ Shape2(loc.m1, N1, C) /\ Shape2(loc.m2, N2, C)
              /\ Shape2(loc.scores, N1, N2)
              /\ Shape2(loc.attn_1, N1, N2) /\ Shape2(loc.attn_2, N2, N1)
              /\ Shape2(loc.attnsum_1, N1, C) /\ Shape2(loc.attnsum_2, N2, C)
              /\ Shape2(loc.u1, N1, C) /\ Shape2(loc.u2, N2, C)
              /\ Shape2(loc.m1cat, N1, 2 * C) /\ Shape2(loc.m2cat, N2, 2 * C)

\* Two rounds on a graph of three nodes and a graph of one node.
C4_Witness ==
    /\ Len(rounds) = 2
    /\ N1 = 3 /\ N2 = 1
    /\ loc.attn_1.shape = <<3, 1>> /\ loc.attn_2.shape = <<1, 3>>
    /\ loc.h1.shape = <<3, EmbeddingDim>> /\ loc.h2.shape = <<1, EmbeddingDim>>

\* C5: in one GMNlayer.forward call both graphs are updated from the node
\* states x1 and x2 the call was given: m1 is the propagation over
\* (x1, edge_index1, edge_weight1) and m2 over (x2, edge_index2,
\* edge_weight2), the scores are x1 * x2^T, the only terms across the graphs
\* are u1 = x1 - attn_1 * x2 and u2 = x2 - attn_2 * x1, and h1 and h2 are the
\* GRU cell's results for (m1, u1) on x1 and (m2, u2) on x2: h2 is not
\* computed from h1.  Replacing the other graph leaves m1 and m2 as they are.
C5_SynchronousUpdate ==
    Len(rounds) >= 1 =>
        LET a == LastRound.args
        IN  /\ loc.m1 = propagate(a.edge_index1, <<N1, N1>>, a.x1, a.edge_weight1)
            /\ loc.m2 = propagate(a.edge_index2, <<N2, N2>>, a.x2, a.edge_weight2)
            /\ loc.scores = MatMul(a.x1, Transpose(a.x2))
            /\ loc.attn_1 = Softmax(loc.scores, 1)
            /\ loc.attn_2 = Transpose(Softmax(loc.scores, 0))
            /\ loc.u1 = MatSub(a.x1, MatMul(loc.attn_1, a.x2))
            /\ loc.u2 = MatSub(a.x2, MatMul(loc.attn_2, a.x1))
            /\ loc.h1 = fnode(Cat2(loc.m1, loc.u1), a.x1)
            /\ loc.h2 = fnode(Cat2(loc.m2, loc.u2), a.x2)
            /\ LastRound.h1 = loc.h1 /\ LastRound.h2 = loc.h2
            /\ pc = "loop" =>
                  /\ GMNlayer_forward(a.x1, a.x1, a.edge_index1, a.edge_index1,
                                      a.edge_weight1, a.edge_weight1).m1 = loc.m1
                  /\ GMNlayer_forward(a.x2, a.x2, a.edge_index2, a.edge_index2,
                                      a.edge_weight2, a.edge_weight2).m2 = loc.m2

\* A round in which graph 1 changed, and in which an update of graph 2 from
\* the new states of graph 1 would have given another graph 2.
C5_Witness ==
    /\ Len(rounds) >= 1
    /\ loc.h1 # LastRound.args.x1
    /\ LET a == LastRound.args
           u2seq == MatSub(a.x2, MatMul(loc.attn_2, loc.h1))
       IN  /\ u2seq # loc.u2
           /\ fnode(Cat2(loc.m2, u2seq), a.x2) # loc.h2

\* The sum of the rows msgs[e] for the edges e in S, from the row zero.
RECURSIVE SumRows(_, _, _)
SumRows(S, msgs, zero) ==
    IF S = {} THEN zero
    ELSE LET e == CHOOSE q \in S : TRUE
             rest == SumRows(S \ {e}, msgs, zero)
         IN  [k \in DOMAIN zero |-> msgs[e][k] + rest[k]]

\* Row e of a matrix as a matrix of one row, and None as None.
RowOf(t, e) == IF IsNone(t) THEN None ELSE T2(1, Size1(t), LAMBDA r, k : t.d[e][k])

\* The message of edge e alone: from x_i = x[target], x_j = x[source] and
\* the edge's own weight row.
EdgeMessage(x, edge_index, edge_weight, e) ==
    message(IndexSelect(x, <<edge_index.d[2][e]>>),
            IndexSelect(x, <<edge_index.d[1][e]>>),
            edge_index, <<Size0(x), Size0(x)>>, RowOf(edge_weight, e)).d[1]

\* m is the sum, at each node, of the messages of the edges that end there.
SumAtTarget(m, x, edge_index, edge_weight) ==
    LET E == Size1(edge_index)
        msgs == [e \in 1..E |-> EdgeMessage(x, edge_index, edge_weight, e)]
        zero == [k \in 1..out_channels |-> 0]
    IN  /\ Shape2(m, Size0(x), out_channels)
        /\ \A v \in 0..(Size0(x) - 1) :
              m.d[v + 1] = SumRows({e \in 1..E : edge_index.d[2][e] = v}, msgs, zero)
        /\ update(m) = m

\* C6: the message passing of GMNlayer sums at the target: for every edge
\* (s, t) a message is computed from x_i = x[t], x_j = x[s] and the edge's
\* weight row, and the aggregate of node v is the sum of the messages of
\* exactly the edges with target v, each edge of a multi-edge counted; a
\* node with no incoming edge gets the zero vector, and update returns the
\* aggregate as it is.
C6_SumAtTarget ==
    Len(rounds) >= 1 =>
        LET a == LastRound.args
        IN  /\ SumAtTarget(loc.m1, a.x1, a.edge_index1, a.edge_weight1)
            /\ SumAtTarget(loc.m2, a.x2, a.edge_index2, a.edge_weight2)

\* Graph 1 has the edge 0 -> 1 twice: node 1 gets twice the message of the
\* edge, which is not zero, and node 0, with no incoming edge, gets zero.
C6_Witness ==
    /\ Len(rounds) >= 1
    /\ N1 = 2
    /\ data.edge_index1.d = << <<0, 0>>, <<1, 1>> >>
    /\ LET a == LastRound.args
           one == EdgeMessage(a.x1, a.edge_index1, a.edge_weight1, 1)
       IN  /\ loc.m1.d[2] = [k \in 1..out_channels |-> 2 * one[k]]
           /\ loc.m1.d[2] # [k \in 1..out_channels |-> 0]
           /\ loc.m1.d[2] # one
           /\ loc.m1.d[1] = [k \in 1..out_channels |-> 0]

\* The input of fmessage for the edges of one graph is [E, 3 * in_channels]
\* and the message matrix is [E, out_channels].
MessageWidths(x, edge_index, edge_weight) ==
    LET E == Size1(edge_index)
        x_j == IndexSelect(x, edge_index.d[1])
        x_i == IndexSelect(x, edge_index.d[2])
        cat == message_input(x_i, x_j, edge_weight)
    IN  /\ Shape2(cat, E, 3 * in_channels)
        /\ IsNone(edge_weight) => cat = Cat3(x_i, x_j, Ones(E, in_channels))
        /\ ~IsNone(edge_weight) => /\ Shape2(edge_weight, E, in_channels)
                                   /\ cat = Cat3(x_i, x_j, edge_weight)
        /\ Shape2(message(x_i, x_j, edge_index, <<Size0(x), Size0(x)>>, edge_weight),
                  E, out_channels)

\* C7: in GMNlayer.message an edge_weight of None is replaced by a matrix of
\* ones with one row per edge and in_channels columns, so that with the
\* edge weights absent or present the concatenation [x_i, x_j, edge_weight]
\* has E rows and 3 * in_channels columns, the input width of fmessage, and
\* the messages have the shape [E, out_channels].
C7_MessageInputWidth ==
    pc \in {"loop", "done"} =>
        /\ MessageWidths(net_x1, data.edge_index1, net_ew1)
        /\ MessageWidths(net_x2, data.edge_index2, net_ew2)

\* A round was made on a graph of two edges and no edge weights.
C7_Witness ==
    /\ Len(rounds) >= 1
    /\ IsNone(net_ew1) /\ IsNone(LastRound.args.edge_weight1)
    /\ Size1(data.edge_index1) = 2
    /\ loc.m1 # T2(N1, out_channels, LAMBDA r, k : 0)

\* The argument of GMNnet.forward with the two graphs exchanged.
Swapped(d) ==
    [x1 |-> d.x2, x2 |-> d.x1,
     edge_index1 |-> d.edge_index2, edge_index2 |-> d.edge_index1,
     edge_attr1 |-> d.edge_attr2, edge_attr2 |-> d.edge_attr1]

\* GMNlayer.forward on the exchanged arguments of the last round returns
\* the exchanged results.
LayerSwapSymmetric ==
    (pc = "loop" /\ Len(rounds) >= 1) =>
        \A a \in {LastRound.args} :
        \A sw \in {GMNlayer_forward(a.x2, a.x1, a.edge_index2, a.edge_index1,
                                    a.edge_weight2, a.edge_weight1)} :
            sw.h1 = loc.h2 /\ sw.h2 = loc.h1

\* The edge attributes of the two graphs are both None or both given.
AttrsAlike == IsNone(data.edge_attr1) <=> IsNone(data.edge_attr2)

\* C8, as stated: GMNlayer.forward on the exchanged graphs returns (h2, h1),
\* and GMNnet.forward on the exchanged pair of graphs returns (hg2, hg1).
C8_SwapSymmetric_Original ==
    /\ LayerSwapSymmetric
    /\ pc = "done" => GMNnet_forward(Swapped(data), num_layers) = <<hg2, hg1>>

\* C8, amended: GMNlayer.forward on the exchanged graphs returns (h2, h1),
\* and GMNnet.forward on the exchanged pair of graphs returns (hg2, hg1)
\* when the edge attributes of the two graphs are both None or both given.
C8_SwapSymmetric ==
    /\ LayerSwapSymmetric
    /\ (pc = "done" /\ AttrsAlike) =>
          GMNnet_forward(Swapped(data), num_layers) = <<hg2, hg1>>

\* A call of two rounds on graphs of different node counts returned two
\* different vectors, and the call on the exchanged pair returns them
\* exchanged.
C8_Witness ==
    /\ pc = "done" /\ num_layers = 2 /\ AttrsAlike
    /\ N1 # N2
    /\ hg1 # hg2
    /\ loc.h1 # loc.h2
    /\ GMNnet_forward(Swapped(data), num_layers) = <<hg2, hg1>>

\* C9: in GMNnet.forward edge_attr1 alone decides on the edge weights of
\* both graphs: with edge_attr1 None both edge weights are None, edge_attr2
\* being ignored; with edge_attr1 given edge_attr2 is embedded too, so that
\* a call with edge_attr1 given and edge_attr2 None raises and returns
\* nothing; every call that reaches the loop has both edge weights None or
\* both embedded.
C9_EdgeWeightsByAttr1 ==
    /\ pc \in {"loop", "done"} =>
          /\ IsNone(data.edge_attr1) => IsNone(net_ew1) /\ IsNone(net_ew2)
          /\ ~IsNone(data.edge_attr1) =>
                /\ ~IsNone(data.edge_attr2)
                /\ net_ew1 = Squeeze1(edge_embed(data.edge_attr1))
                /\ net_ew2 = Squeeze1(edge_embed(data.edge_attr2))
                /\ Shape2(net_ew1, Size1(data.edge_index1), EmbeddingDim)
                /\ Shape2(net_ew2, Size1(data.edge_index2), EmbeddingDim)
          /\ IsNone(net_ew1) <=> IsNone(net_ew2)
    /\ (~IsNone(data.edge_attr1) /\ IsNone(data.edge_attr2)) =>
          /\ pc \in {"embed", "edge", "error"}
          /\ rounds = <<>> /\ IsNone(hg1) /\ IsNone(hg2)
    /\ pc = "error" => ~IsNone(data.edge_attr1) /\ IsNone(data.edge_attr2)
    /\ \A k \in 1..Len(rounds) :
          IsNone(rounds[k].args.edge_weight1) <=> IsNone(rounds[k].args.edge_weight2)

\* A call with edge_attr1 given and edge_attr2 None has raised.
C9_Witness ==
    /\ pc = "error"
    /\ ~IsNone(data.edge_attr1) /\ IsNone(data.edge_attr2)
    /\ Size1(data.edge_index1) >= 1
    /\ IsNone(hg1) /\ IsNone(hg2)

====
